---- MODULE Spec2Model ----
(***************************************************************************)
(* Model of the DNS discovery engine of @layered/dns-records               *)
(* (getAllDnsRecordsStream, getAllDnsRecords, parseDnsRecord,              *)
(* detectWildcardRecords), whose TypeScript source is in src/README.md.    *)
(*                                                                         *)
(* A JavaScript string is modelled as a sequence of one-character strings, *)
(* so that endsWith, includes, replace, split and join are computed the    *)
(* way the runtime computes them.                                          *)
(***************************************************************************)
EXTENDS Integers, Sequences, FiniteSets, TLC

(***************************************************************************)
(* Bounds of the model.                                                    *)
(***************************************************************************)
\* length of the static list of well-known subdomains (subdomains.js)
NumStatic == 3
\* longest record list handed to detectWildcardRecords in SpecWild
MaxRecs == 7
\* most queries of one run that the resolver fails
MaxRejects == 1
\* most calls of addSubdomain in SpecAdd
MaxProposals == 4

(***************************************************************************)
(* String primitives of the JavaScript runtime.                            *)
(***************************************************************************)
\* s.startsWith(p)
startsWith(s, p) ==
  Len(p) <= Len(s) /\ SubSeq(s, 1, Len(p)) = p

\* s.endsWith(p)
endsWith(s, p) ==
  Len(p) <= Len(s) /\ SubSeq(s, Len(s) - Len(p) + 1, Len(s)) = p

\* s.indexOf(p), 1-based; 0 when p does not occur in s
indexOf(s, p) ==
  LET hits == {i \in 1..(Len(s) - Len(p) + 1) : SubSeq(s, i, i + Len(p) - 1) = p}
  IN  IF hits = {} THEN 0 ELSE CHOOSE i \in hits : \A j \in hits : i <= j

\* s.includes(p)
includes(s, p) ==
  indexOf(s, p) # 0

\* s.replace(p, ''): removes the FIRST occurrence of the string p
replaceFirst(s, p) ==
  LET i == indexOf(s, p)
  IN  IF i = 0 THEN s
      ELSE SubSeq(s, 1, i - 1) \o SubSeq(s, i + Len(p), Len(s))

RECURSIVE split(_, _)
\* s.split(c) for a one-character separator c
split(s, c) ==
  LET i == indexOf(s, <<c>>)
  IN  IF i = 0 THEN <<s>>
      ELSE <<SubSeq(s, 1, i - 1)>> \o split(SubSeq(s, i + 1, Len(s)), c)

RECURSIVE join(_, _)
\* parts.join(c)
join(parts, c) ==
  IF parts = <<>> THEN <<>>
  ELSE IF Len(parts) = 1 THEN parts[1]
  ELSE parts[1] \o <<c>> \o join(Tail(parts), c)

\* arr.includes(x)
arrIncludes(arr, x) ==
  \E i \in 1..Len(arr) : arr[i] = x

RECURSIVE reverse(_)
\* arr.reverse()
reverse(arr) ==
  IF arr = <<>> THEN <<>> ELSE reverse(Tail(arr)) \o <<arr[1]>>

Digit == <<"0", "1", "2", "3", "4", "5", "6", "7", "8", "9">>

RECURSIVE numToString(_)
\* String(n) for a non-negative integer n, as join() renders record.ttl
numToString(n) ==
  IF n < 10 THEN <<Digit[n + 1]>>
  ELSE numToString(n \div 10) \o <<Digit[(n % 10) + 1]>>

digitValue(c) ==
  CHOOSE v \in 0..9 : Digit[v + 1] = c

isDigit(c) ==
  \E v \in 1..10 : Digit[v] = c

RECURSIVE digitsToNum(_, _)
digitsToNum(s, acc) ==
  IF s = <<>> THEN acc ELSE digitsToNum(Tail(s), 10 * acc + digitValue(s[1]))

\* Number(s): 0 for the empty string, the value of a decimal numeral,
\* NaN for any other string the model writes
Number(s) ==
  IF \A i \in 1..Len(s) : isDigit(s[i]) THEN digitsToNum(s, 0) ELSE "NaN"

(***************************************************************************)
(* Domain-name validation (isTld, isDomain).                               *)
(***************************************************************************)
Letters ==
  {"a", "b", "c", "d", "e", "f", "g", "h", "i", "j", "k", "l", "m",
   "n", "o", "p", "q", "r", "s", "t", "u", "v", "w", "x", "y", "z"}

\* [a-z0-9-] of the regular expressions, case-insensitive in the source;
\* the model writes lower case only
isAlnumDash(c) ==
  c \in Letters \/ isDigit(c) \/ c = "-"

\* punycode's toASCII leaves a string of ASCII characters unchanged; every
\* character of the model is ASCII
toASCII(s) ==
  s

\* /^xn[a-z0-9-]{5,}$/
isXnLabel(l) ==
  /\ Len(l) >= 7
  /\ SubSeq(l, 1, 2) = <<"x", "n">>
  /\ \A i \in 3..Len(l) : isAlnumDash(l[i])

isTld(tld0) ==
  LET tld == IF startsWith(tld0, <<".">>) THEN Tail(tld0) ELSE tld0
      a   == toASCII(tld)
  IN  \/ (Len(a) >= 2 /\ Len(a) <= 64 /\ \A i \in 1..Len(a) : a[i] \in Letters)
      \/ isXnLabel(a)

\* /^([a-z0-9-_]{1,64}|xn[a-z0-9-]{5,})$/
labelTest(l) ==
  \/ (Len(l) >= 1 /\ Len(l) <= 64
        /\ \A i \in 1..Len(l) : isAlnumDash(l[i]) \/ l[i] = "_")
  \/ isXnLabel(l)

isDomain(name0) ==
  LET name   == IF endsWith(name0, <<".">>)
                THEN SubSeq(name0, 1, Len(name0) - 1) ELSE name0
      labels == reverse(split(toASCII(name), "."))
  IN  /\ Len(labels) > 1
      /\ \A index \in 1..Len(labels) :
           IF index > 1
           THEN /\ ~startsWith(labels[index], <<"-">>)
                /\ ~endsWith(labels[index], <<"-">>)
                /\ labelTest(labels[index])
           ELSE isTld(labels[index])

(***************************************************************************)
(* DnsRecord and its text forms.                                           *)
(***************************************************************************)
T_A     == <<"A">>
T_AAAA  == <<"A", "A", "A", "A">>
T_CNAME == <<"C", "N", "A", "M", "E">>
T_NS    == <<"N", "S">>
T_SOA   == <<"S", "O", "A">>
T_MX    == <<"M", "X">>
T_TXT   == <<"T", "X", "T">>

DnsRecord(name, ttl, type, data) ==
  [name |-> name, ttl |-> ttl, type |-> type, data |-> data]

\* `${record.name}-${record.type}-${record.data}`
recordHash(record) ==
  record.name \o <<"-">> \o record.type \o <<"-">> \o record.data

\* [ record.name, record.ttl, 'IN', record.type, record.data ].join('\t');
\* TextEncoder/TextDecoder are inverse on the ASCII strings of the model
encodeRecord(record) ==
  join(<<record.name, numToString(record.ttl), <<"I", "N">>,
         record.type, record.data>>, "\t")

\* parseDnsRecord: ok = FALSE stands for the thrown Error
parseDnsRecord(chunk) ==
  LET parts == split(chunk, "\t")
  IN  IF Len(parts) < 5 \/ parts[3] # <<"I", "N">>
      THEN [ok |-> FALSE]
      ELSE [ok |-> TRUE,
            rec |-> DnsRecord(parts[1], Number(parts[2]), parts[4], parts[5])]

(***************************************************************************)
(* The static list of well-known subdomains (./subdomains.js).             *)
(***************************************************************************)
StaticPool == <<(<<"w">>), (<<"m">>), (<<"f">>), (<<"b">>), (<<"d">>)>>

subdomainsRecords ==
  SubSeq(StaticPool, 1, NumStatic)

(***************************************************************************)
(* detectWildcardRecords.  percent is given in hundredths (0.15 is 15), so *)
(* that sameData / recordTypeLength < percent is an integer comparison.    *)
(***************************************************************************)
DefaultPercent == 15

\* the type list without 'A'
isAddressType_noA(type) ==
  type \in {T_AAAA, T_CNAME}

\* ['A', 'AAAA', 'CNAME'].includes(record.type)
isAddressType(type) ==
  type \in {T_A, T_AAAA, T_CNAME}

\* `${record.type}-${record.data}`
groupKey(record) ==
  record.type \o <<"-">> \o record.data

\* sameDataGroup[key] after the first forEach
sameDataGroup(recs, key) ==
  Cardinality({i \in 1..Len(recs) :
                 isAddressType(recs[i].type) /\ groupKey(recs[i]) = key})

\* records.filter(r => r.type === type).length
recordTypeLength(recs, type) ==
  Cardinality({i \in 1..Len(recs) : recs[i].type = type})

\* keepsRecord without the minimum sample size
keepsRecord_noSampleSize(recs, record, percent) ==
  sameDataGroup(recs, groupKey(record)) * 100
    < percent * recordTypeLength(recs, record.type)

\* the test of the second forEach that keeps a record as it is
keepsRecord(recs, record, percent) ==
  \/ sameDataGroup(recs, groupKey(record)) * 100
       < percent * recordTypeLength(recs, record.type)
  \/ 2 * recordTypeLength(recs, record.type) < Len(subdomainsRecords)

\* a wildcard record is pushed for every record of a group
wildcardSeen_never(wildcardsFound, key) ==
  FALSE

\* wildcardsFound.includes(key)
wildcardSeen(wildcardsFound, key) ==
  arrIncludes(wildcardsFound, key)

RECURSIVE wildcardLoop(_, _, _, _, _, _)
\* the second forEach, from index i on
wildcardLoop(dom, recs, percent, i, wildcardsFound, recordsWithWildcard) ==
  IF i > Len(recs) THEN recordsWithWildcard
  ELSE LET record == recs[i]
           key    == groupKey(record)
       IN  IF isAddressType(record.type)
           THEN IF keepsRecord(recs, record, percent)
                THEN wildcardLoop(dom, recs, percent, i + 1, wildcardsFound,
                                  Append(recordsWithWildcard, record))
                ELSE IF ~wildcardSeen(wildcardsFound, key)
                THEN wildcardLoop(dom, recs, percent, i + 1,
                                  Append(wildcardsFound, key),
                                  Append(recordsWithWildcard,
                                         [record EXCEPT !.name = <<"*", ".">> \o dom]))
                ELSE wildcardLoop(dom, recs, percent, i + 1, wildcardsFound,
                                  recordsWithWildcard)
           ELSE wildcardLoop(dom, recs, percent, i + 1, wildcardsFound,
                             Append(recordsWithWildcard, record))

detectWildcardRecords(dom, recs, percent) ==
  wildcardLoop(dom, recs, percent, 1, <<>>, <<>>)

(***************************************************************************)
(* State of one discovery run (the closure of getAllDnsRecordsStream), of  *)
(* the resolver, and of the reader of getAllDnsRecords.                    *)
(***************************************************************************)
VARIABLES
  domain,            \* the root domain after toASCII
  optSubdomains,     \* options.subdomains
  recordsHashes,     \* hashes of the records accepted so far
  subdomainsChecked, \* labels an A query was issued for
  subdomainsExtra,   \* the candidate queue
  runningChecks,     \* the outstanding-work counter
  written,           \* chunks accepted by writer.write(), in order
  closeCalls,        \* number of writer.close() calls
  issued,            \* every getDnsRecords call of the run, in order
  inflight,          \* indices into issued of the pending promises
  rejected,          \* indices into issued of the rejected promises
  answers,           \* index into issued -> records the promise resolved with
  sent,              \* history: the record objects sendRecord accepted
  everQueued,        \* history: every label put on the candidate queue
  numDecrements,     \* history: executions of --runningChecks
  records,           \* the array filled by the reader of getAllDnsRecords
  resultState,       \* "pending", "resolved" or "rejected"
  result,            \* the list getAllDnsRecords resolved with
  wRecords,          \* SpecWild: the records argument of detectWildcardRecords
  wPercent,          \* SpecWild: its percent argument, in hundredths
  wOut,              \* SpecWild: <<value>> of detectWildcardRecords; <<>> in a run
  proposed           \* SpecAdd: the arguments addSubdomain was called with

vars ==
  <<domain, optSubdomains, recordsHashes, subdomainsChecked, subdomainsExtra,
    runningChecks, written, closeCalls, issued, inflight, rejected, answers,
    sent, everQueued, numDecrements, records, resultState, result,
    wRecords, wPercent, wOut, proposed>>

runVars ==
  <<recordsHashes, subdomainsChecked, subdomainsExtra, runningChecks, written,
    closeCalls, issued, inflight, sent, everQueued, numDecrements>>

readerVars ==
  <<records, resultState, result>>

wildVars ==
  <<wRecords, wPercent, wOut>>

addVars ==
  <<proposed>>

\* the mutable state of the closure as one value, for the handlers below
Run ==
  [recordsHashes |-> recordsHashes, subdomainsChecked |-> subdomainsChecked,
   subdomainsExtra |-> subdomainsExtra, runningChecks |-> runningChecks,
   written |-> written, closeCalls |-> closeCalls, issued |-> issued,
   inflight |-> inflight, sent |-> sent, everQueued |-> everQueued,
   numDecrements |-> numDecrements]

SetRun(st) ==
  /\ recordsHashes' = st.recordsHashes
  /\ subdomainsChecked' = st.subdomainsChecked
  /\ subdomainsExtra' = st.subdomainsExtra
  /\ runningChecks' = st.runningChecks
  /\ written' = st.written
  /\ closeCalls' = st.closeCalls
  /\ issued' = st.issued
  /\ inflight' = st.inflight
  /\ sent' = st.sent
  /\ everQueued' = st.everQueued
  /\ numDecrements' = st.numDecrements

(***************************************************************************)
(* The closures of getAllDnsRecordsStream, as functions of the run state.  *)
(***************************************************************************)
\* getDnsRecords(name, type, options.resolver).then(handler): the promise
\* is pending from now on
getDnsRecords(st, name, type, handler) ==
  [st EXCEPT !.issued = Append(@, [name |-> name, type |-> type, then |-> handler]),
             !.inflight = @ \cup {Len(st.issued) + 1}]

\* writer.write(chunk): a write to a closed writer is rejected and dropped
writerWrite(st, chunk) ==
  IF st.closeCalls = 0 THEN [st EXCEPT !.written = Append(@, chunk)] ELSE st

\* writer.close()
writerClose(st) ==
  [st EXCEPT !.closeCalls = @ + 1]

\* sendRecord writing the chunk before it looks at the hash
sendRecord_writeFirst(dom, st, record) ==
  LET hash == recordHash(record)
      s1   == writerWrite(st, encodeRecord(record))
  IN  IF ~arrIncludes(st.recordsHashes, hash) /\ endsWith(record.name, dom)
      THEN [s1 EXCEPT !.recordsHashes = Append(@, hash),
                      !.sent = Append(@, record)]
      ELSE s1

sendRecord(dom, st, record) ==
  LET hash == recordHash(record)
  IN  IF ~arrIncludes(st.recordsHashes, hash) /\ endsWith(record.name, dom)
      THEN writerWrite([st EXCEPT !.recordsHashes = Append(@, hash),
                                  !.sent = Append(@, record)],
                       encodeRecord(record))
      ELSE st

RECURSIVE sendEach(_, _, _)
\* records.forEach(r => sendRecord(r))
sendEach(dom, st, recs) ==
  IF recs = <<>> THEN st
  ELSE sendEach(dom, sendRecord(dom, st, recs[1]), Tail(recs))

\* the drain without the look-up in subdomainsChecked
shouldCheck_noLookup(st, subdomain) ==
  subdomain # <<>>

\* subdomain && !subdomainsChecked.includes(subdomain)
shouldCheck(st, subdomain) ==
  subdomain # <<>> /\ ~arrIncludes(st.subdomainsChecked, subdomain)

RECURSIVE drain(_, _)
\* while (subdomainsExtra.length) { ... } of reqDone
drain(dom, st) ==
  IF st.subdomainsExtra = <<>> THEN st
  ELSE LET subdomain == Head(st.subdomainsExtra)
           s1 == [st EXCEPT !.subdomainsExtra = Tail(@)]
       IN  IF shouldCheck(s1, subdomain)
           THEN drain(dom,
                  getDnsRecords([s1 EXCEPT !.runningChecks = @ + 1,
                                           !.subdomainsChecked = Append(@, subdomain)],
                                subdomain \o <<".">> \o dom, T_A, "sendRecords"))
           ELSE drain(dom, s1)

\* reqDone closing the writer at the end of the drain, without reading the
\* counter again
reqDone_closeAfterDrain(dom, st) ==
  LET s1 == [st EXCEPT !.runningChecks = @ - 1, !.numDecrements = @ + 1]
  IN  IF s1.runningChecks = 0 THEN writerClose(drain(dom, s1)) ELSE s1

\* reqDone draining the queue at every completion
reqDone_drainEach(dom, st) ==
  LET s1 == [st EXCEPT !.runningChecks = @ - 1, !.numDecrements = @ + 1]
      s2 == drain(dom, s1)
  IN  IF s2.runningChecks = 0 THEN writerClose(s2) ELSE s2

\* reqDone draining the queue when one check is left
reqDone_drainAtOne(dom, st) ==
  LET s1 == [st EXCEPT !.runningChecks = @ - 1, !.numDecrements = @ + 1]
      s2 == IF s1.runningChecks = 1 THEN drain(dom, s1) ELSE s1
  IN  IF s2.runningChecks = 0 THEN writerClose(s2) ELSE s2

reqDone(dom, st) ==
  LET s1 == [st EXCEPT !.runningChecks = @ - 1, !.numDecrements = @ + 1]
      s2 == IF s1.runningChecks = 0 THEN drain(dom, s1) ELSE s1
  IN  IF s2.runningChecks = 0 THEN writerClose(s2) ELSE s2

sendRecords(dom, st, recs) ==
  reqDone(dom, sendEach(dom, st, recs))

\* addSubdomain without the look-up in the candidate queue
addSubdomain_noLookup(dom, st, value0) ==
  LET value == IF endsWith(value0, <<".">>)
               THEN SubSeq(value0, 1, Len(value0) - 1) ELSE value0
  IN  IF endsWith(value, <<".">> \o dom)
      THEN LET subdomain == replaceFirst(value, <<".">> \o dom)
           IN  [st EXCEPT !.subdomainsExtra = Append(@, subdomain),
                          !.everQueued = Append(@, subdomain)]
      ELSE st

addSubdomain(dom, st, value0) ==
  LET value == IF endsWith(value0, <<".">>)
               THEN SubSeq(value0, 1, Len(value0) - 1) ELSE value0
  IN  IF endsWith(value, <<".">> \o dom)
      THEN LET subdomain == replaceFirst(value, <<".">> \o dom)
           IN  IF ~arrIncludes(st.subdomainsExtra, subdomain)
               THEN [st EXCEPT !.subdomainsExtra = Append(@, subdomain),
                               !.everQueued = Append(@, subdomain)]
               ELSE st
      ELSE st

RECURSIVE nsEach(_, _, _)
\* nsRecords.forEach(r => { sendRecord(r); if (...) addSubdomain(r.data) })
nsEach(dom, st, recs) ==
  IF recs = <<>> THEN st
  ELSE LET r  == recs[1]
           s1 == sendRecord(dom, st, r)
           s2 == IF includes(r.data, dom) THEN addSubdomain(dom, s1, r.data) ELSE s1
       IN  nsEach(dom, s2, Tail(recs))

\* the NS callback without its else branch
nsHandler_noElse(dom, st, nsRecords) ==
  IF Len(nsRecords) > 0
  THEN LET s1 == nsEach(dom, st, nsRecords)
           s2 == getDnsRecords(s1, dom, T_SOA, "sendRecords")
           s3 == getDnsRecords(s2, dom, T_A, "sendRecords")
           s4 == getDnsRecords(s3, dom, T_AAAA, "sendRecords")
           s5 == getDnsRecords(s4, dom, T_MX, "mx")
       IN  getDnsRecords(s5, dom, T_TXT, "txt")
  ELSE st

\* the NS callback without the SOA query
nsHandler_fourGroups(dom, st, nsRecords) ==
  IF Len(nsRecords) > 0
  THEN LET s1 == nsEach(dom, st, nsRecords)
           s3 == getDnsRecords(s1, dom, T_A, "sendRecords")
           s4 == getDnsRecords(s3, dom, T_AAAA, "sendRecords")
           s5 == getDnsRecords(s4, dom, T_MX, "mx")
       IN  getDnsRecords(s5, dom, T_TXT, "txt")
  ELSE writerClose(st)

\* the callback of the NS bootstrap query
nsHandler(dom, st, nsRecords) ==
  IF Len(nsRecords) > 0
  THEN LET s1 == nsEach(dom, st, nsRecords)
           s2 == getDnsRecords(s1, dom, T_SOA, "sendRecords")
           s3 == getDnsRecords(s2, dom, T_A, "sendRecords")
           s4 == getDnsRecords(s3, dom, T_AAAA, "sendRecords")
           s5 == getDnsRecords(s4, dom, T_MX, "mx")
       IN  getDnsRecords(s5, dom, T_TXT, "txt")
  ELSE writerClose(st)

RECURSIVE mxEach(_, _, _)
mxEach(dom, st, recs) ==
  IF recs = <<>> THEN st
  ELSE LET r     == recs[1]
           parts == split(r.data, " ")
           s1    == IF includes(r.data, dom) /\ Len(parts) > 1
                    THEN addSubdomain(dom, st, parts[2]) ELSE st
       IN  mxEach(dom, s1, Tail(recs))

\* the callback of the MX query
mxHandler(dom, st, recs) ==
  sendRecords(dom, mxEach(dom, st, recs), recs)

RECURSIVE spfEach(_, _, _)
\* r.data.split(' ').forEach(spf => ...)
spfEach(dom, st, tokens) ==
  IF tokens = <<>> THEN st
  ELSE LET spf     == tokens[1]
           include == <<"i", "n", "c", "l", "u", "d", "e", ":">>
           s1 == IF startsWith(spf, include) /\ endsWith(spf, dom)
                 THEN addSubdomain(dom, st, replaceFirst(spf, include))
                 ELSE IF startsWith(spf, <<"a", ":">>) /\ endsWith(spf, dom)
                 THEN addSubdomain(dom, st, replaceFirst(spf, <<"a", ":">>))
                 ELSE IF startsWith(spf, <<"m", "x", ":">>) /\ endsWith(spf, dom)
                 THEN addSubdomain(dom, st, replaceFirst(spf, <<"m", "x", ":">>))
                 ELSE st
       IN  spfEach(dom, s1, Tail(tokens))

RECURSIVE txtEach(_, _, _)
txtEach(dom, st, recs) ==
  IF recs = <<>> THEN st
  ELSE LET r  == recs[1]
           s1 == IF includes(r.data, <<"v", "=", "s", "p", "f", "1">>)
                      /\ includes(r.data, dom)
                 THEN spfEach(dom, st, split(r.data, " ")) ELSE st
       IN  txtEach(dom, s1, Tail(recs))

\* the callback of the TXT query
txtHandler(dom, st, recs) ==
  sendRecords(dom, txtEach(dom, st, recs), recs)

(***************************************************************************)
(* The resolver: the record lists a query may resolve with.  Names come    *)
(* with and without the trailing dot, inside and outside the subtree.      *)
(***************************************************************************)
Base  == <<"x", ".", "c", "o">>
BaseD == <<"x", ".", "c", "o", ".">>

\* the domain arguments of the runs of the model; both pass isDomain
Domains == {Base, BaseD}

\* the options.subdomains arguments of the runs of the model
OptPool == {<<>>, <<(<<"z">>), (<<"w">>)>>}

\* the calls of getAllDnsRecordsStream(domain, options) of the model
Calls ==
  {c \in Domains \X OptPool : c[1] = Base \/ c[2] = <<>>}

NsTarget == <<"n", ".", "x", ".", "c", "o", ".">>

\* no delegation, or one name server inside the subtree
NsPool ==
  {<<>>, <<DnsRecord(Base, 60, T_NS, NsTarget)>>}

\* the resolver has no SOA and no AAAA record of the root
SoaPool ==
  {<<>>}

\* an address, the same address with another ttl, and the address of a
\* name outside the subtree (the end of a CNAME chain)
APool ==
  {<<DnsRecord(Base, 60, T_A, <<"1">>), DnsRecord(Base, 30, T_A, <<"1">>),
     DnsRecord(<<"y">> \o Base, 60, T_A, <<"2">>)>>}

AaaaPool ==
  {<<>>}

MxTarget == <<"s", ".", "x", ".", "c", "o", ".">>

\* the exchange host s.x.co. is named by no other record
MxPool ==
  {<<DnsRecord(Base, 60, T_MX, <<"5", " ">> \o MxTarget)>>}

SpfData ==
  <<"v", "=", "s", "p", "f", "1", " ",
    "i", "n", "c", "l", "u", "d", "e", ":", "n", ".", "x", ".", "c", "o", " ",
    "a", ":", "w", ".", "x", ".", "c", "o", " ",
    "m", "x", ":", "x", ".", "c", "o">>

\* an SPF policy, and two texts that differ after a tab character
TxtPool ==
  {<<DnsRecord(Base, 60, T_TXT, SpfData),
     DnsRecord(Base, 60, T_TXT, <<"k", "\t", "1">>),
     DnsRecord(Base, 60, T_TXT, <<"k", "\t", "2">>)>>}

\* the answer to the A query of a subdomain: the hosts w and n exist
SubPool(name) ==
  IF name[1] \in {"w", "n"}
  THEN {<<DnsRecord(name, 60, T_A, <<"1">>)>>}
  ELSE {<<>>}

ResolverAnswers(dom, q) ==
  IF q.name # dom THEN SubPool(q.name)
  ELSE IF q.type = T_NS THEN NsPool
  ELSE IF q.type = T_SOA THEN SoaPool
  ELSE IF q.type = T_A THEN APool
  ELSE IF q.type = T_AAAA THEN AaaaPool
  ELSE IF q.type = T_MX THEN MxPool
  ELSE TxtPool

(***************************************************************************)
(* Discovery run: getAllDnsRecordsStream and the reader of                 *)
(* getAllDnsRecords.                                                       *)
(***************************************************************************)
IdleWild ==
  /\ wRecords = <<>>
  /\ wPercent = DefaultPercent
  /\ wOut = <<>>

\* the state when getAllDnsRecordsStream returns: the NS query is pending
Init ==
  /\ \E c \in Calls :
       /\ isDomain(c[1])
       /\ domain = toASCII(c[1])
       /\ optSubdomains = c[2]
  /\ recordsHashes = <<>>
  /\ subdomainsChecked = <<>>
  /\ subdomainsExtra = optSubdomains \o subdomainsRecords
  /\ everQueued = optSubdomains \o subdomainsRecords
  /\ runningChecks = 5
  /\ written = <<>>
  /\ closeCalls = 0
  /\ issued = <<[name |-> domain, type |-> T_NS, then |-> "ns"]>>
  /\ inflight = {1}
  /\ rejected = {}
  /\ answers = <<>>
  /\ sent = <<>>
  /\ numDecrements = 0
  /\ records = <<>>
  /\ resultState = "pending"
  /\ result = <<>>
  /\ IdleWild
  /\ proposed = <<>>

\* a pending promise resolves with recs and its then-callback runs
Resolve(id, recs, handler, after) ==
  /\ id \in inflight
  /\ issued[id].then = handler
  /\ isDomain(issued[id].name)
  /\ recs \in ResolverAnswers(domain, issued[id])
  /\ answers' = answers @@ (id :> recs)
  /\ SetRun(after)
  /\ UNCHANGED <<domain, optSubdomains, rejected, readerVars, wildVars, addVars>>

Settled(id) ==
  [Run EXCEPT !.inflight = @ \ {id}]

ResolveNS ==
  \E id \in inflight : \E recs \in NsPool :
    Resolve(id, recs, "ns", nsHandler(domain, Settled(id), recs))

ResolveGroup ==
  \E id \in inflight : \E recs \in ResolverAnswers(domain, issued[id]) :
    Resolve(id, recs, "sendRecords", sendRecords(domain, Settled(id), recs))

ResolveMX ==
  \E id \in inflight : \E recs \in MxPool :
    Resolve(id, recs, "mx", mxHandler(domain, Settled(id), recs))

ResolveTXT ==
  \E id \in inflight : \E recs \in TxtPool :
    Resolve(id, recs, "txt", txtHandler(domain, Settled(id), recs))

\* a pending promise rejects (isDomain fails, or the resolver throws): the
\* promises have a then-callback only, so no code of the run executes
Reject ==
  \E id \in inflight :
    /\ Cardinality(rejected) < MaxRejects
    /\ inflight' = inflight \ {id}
    /\ rejected' = rejected \cup {id}
    /\ UNCHANGED <<domain, optSubdomains, recordsHashes, subdomainsChecked,
                   subdomainsExtra, runningChecks, written, closeCalls, issued,
                   answers, sent, everQueued, numDecrements, readerVars, wildVars,
                   addVars>>

\* reader.read() resolves with a chunk: records.push(parseDnsRecord(value))
ReaderRead ==
  /\ resultState = "pending"
  /\ Len(records) < Len(written)
  /\ LET parsed == parseDnsRecord(written[Len(records) + 1])
     IN  IF parsed.ok
         THEN records' = Append(records, parsed.rec) /\ UNCHANGED <<resultState, result>>
         ELSE resultState' = "rejected" /\ UNCHANGED <<records, result>>
  /\ UNCHANGED <<domain, optSubdomains, runVars, rejected, answers, wildVars,
                 addVars>>

\* reader.read() resolves with done: resolve(detectWildcardRecords(...))
ReaderDone ==
  /\ resultState = "pending"
  /\ Len(records) = Len(written)
  /\ closeCalls > 0
  /\ resultState' = "resolved"
  /\ result' = detectWildcardRecords(domain, records, DefaultPercent)
  /\ UNCHANGED <<domain, optSubdomains, runVars, rejected, answers, records,
                 wildVars, addVars>>

Next ==
  \/ ResolveNS
  \/ ResolveGroup
  \/ ResolveMX
  \/ ResolveTXT
  \/ Reject
  \/ ReaderRead
  \/ ReaderDone

Spec ==
  Init /\ [][Next]_vars

(***************************************************************************)
(* detectWildcardRecords as a function of its arguments: the record list   *)
(* grows one record at a time and the function is applied to each list.    *)
(***************************************************************************)
Host(label) ==
  label \o <<".">> \o Base

\* the records a list is extended with
WildPool ==
  {DnsRecord(Host(<<"w">>), 60, T_A, <<"1">>),
   DnsRecord(Host(<<"m">>), 30, T_A, <<"1">>),
   DnsRecord(Host(<<"f">>), 60, T_A, <<"2">>),
   DnsRecord(Base, 60, T_TXT, <<"1">>)}

\* the lists to start from: the empty one, and one CNAME record
WildSeeds ==
  {<<>>, <<DnsRecord(Host(<<"w">>), 60, T_CNAME, <<"1">>)>>}

WildPercents == {DefaultPercent}

WildInit ==
  /\ domain = Base
  /\ optSubdomains = <<>>
  /\ recordsHashes = <<>>
  /\ subdomainsChecked = <<>>
  /\ subdomainsExtra = <<>>
  /\ everQueued = <<>>
  /\ runningChecks = 5
  /\ written = <<>>
  /\ closeCalls = 0
  /\ issued = <<>>
  /\ inflight = {}
  /\ rejected = {}
  /\ answers = <<>>
  /\ sent = <<>>
  /\ numDecrements = 0
  /\ records = <<>>
  /\ resultState = "pending"
  /\ result = <<>>
  /\ wRecords \in WildSeeds
  /\ wPercent \in WildPercents
  /\ wOut = <<detectWildcardRecords(domain, wRecords, wPercent)>>
  /\ proposed = <<>>

\* detectWildcardRecords applied to the list with one more record
WildDetect ==
  /\ Len(wRecords) < MaxRecs
  /\ \E r \in WildPool :
       /\ wRecords' = Append(wRecords, r)
       /\ wOut' = <<detectWildcardRecords(domain, wRecords', wPercent)>>
  /\ UNCHANGED <<domain, optSubdomains, runVars, rejected, answers, readerVars,
                 wPercent, addVars>>

WildNext ==
  WildDetect

SpecWild ==
  WildInit /\ [][WildNext]_vars

(***************************************************************************)
(* addSubdomain as a function of the host name it is called with: the      *)
(* callbacks of a run for x.co call it with one host name after another.   *)
(***************************************************************************)
\* host names inside the subtree (with and without the trailing dot, with
\* '.x.co' once, twice and inside another label) and outside of it
HostPool ==
  {NsTarget,
   Host(<<"s">>),
   Host(<<"w">>),
   <<"a">> \o <<".">> \o Base \o <<".">> \o Host(<<"b">>),
   <<"a">> \o <<".">> \o Base \o <<"m", ".">> \o Base,
   <<"n", ".", "y", ".", "c", "o">>}

\* the closure of a run for x.co before any callback has run
AddInit ==
  /\ domain = Base
  /\ optSubdomains = <<>>
  /\ recordsHashes = <<>>
  /\ subdomainsChecked = <<>>
  /\ subdomainsExtra = optSubdomains \o subdomainsRecords
  /\ everQueued = optSubdomains \o subdomainsRecords
  /\ runningChecks = 5
  /\ written = <<>>
  /\ closeCalls = 0
  /\ issued = <<[name |-> domain, type |-> T_NS, then |-> "ns"]>>
  /\ inflight = {1}
  /\ rejected = {}
  /\ answers = <<>>
  /\ sent = <<>>
  /\ numDecrements = 0
  /\ records = <<>>
  /\ resultState = "pending"
  /\ result = <<>>
  /\ IdleWild
  /\ proposed = <<>>

\* addSubdomain(value)
AddHost ==
  /\ Len(proposed) < MaxProposals
  /\ \E value \in HostPool :
       /\ proposed' = Append(proposed, value)
       /\ SetRun(addSubdomain(domain, Run, value))
  /\ UNCHANGED <<domain, optSubdomains, rejected, answers, readerVars, wildVars>>

AddNext ==
  AddHost

SpecAdd ==
  AddInit /\ [][AddNext]_vars

(***************************************************************************)
(* Vocabulary of the properties.                                           *)
(***************************************************************************)
\* the promise of issued[id] resolved
Resolved(id) ==
  id \in DOMAIN answers

\* the promise of issued[id] resolved or rejected
Settled_(id) ==
  id \in 1..Len(issued) /\ id \notin inflight

\* the query groups the counter accounts for: all but the NS bootstrap
Counted(id) ==
  issued[id].then # "ns"

NsNonEmpty ==
  Resolved(1) /\ answers[1] # <<>>

NsEmpty ==
  Resolved(1) /\ answers[1] = <<>>

SameIdentity(r1, r2) ==
  r1.name = r2.name /\ r1.type = r2.type /\ r1.data = r2.data

NoTwoIdentical(recs) ==
  \A i, j \in 1..Len(recs) : i < j => ~SameIdentity(recs[i], recs[j])

InSubtree(name) ==
  name = domain \/ endsWith(name, <<".">> \o domain)

Seed ==
  optSubdomains \o subdomainsRecords

\* an A query for name was issued
QueriedA(name) ==
  \E id \in 1..Len(issued) : issued[id].name = name /\ issued[id].type = T_A

(***************************************************************************)
(* C1-C3: the completion protocol.                                         *)
(***************************************************************************)
\* C1: every settled query group other than the NS bootstrap has
\* decremented runningChecks exactly once, whether it resolved or failed:
\* the number of decrements equals the number of settled counted queries.
C1_SettledGroupsDecrementOnce ==
  numDecrements = Cardinality({id \in 1..Len(issued) : Settled_(id) /\ Counted(id)})

\* C2: once every dispatched query has resolved or failed, the stream has
\* been closed (the writer is closed only in the step that settles a query,
\* so a run whose queries have all settled and whose stream is open stays
\* pending forever).
C2_ClosedOnceAllSettled ==
  inflight = {} => closeCalls >= 1

\* C3: after a non-empty NS answer the writer is closed exactly when
\* runningChecks is zero; when it is closed no query is in flight and the
\* candidate queue is empty; close() is called at most once.
C3_ClosedExactlyWhenDrained ==
  NsNonEmpty =>
    /\ closeCalls <= 1
    /\ (closeCalls = 1 <=> runningChecks = 0)
    /\ (closeCalls = 1 => inflight = {} /\ subdomainsExtra = <<>>)

\* a run with delegation that issued subdomain queries and closed its stream
C3_Witness ==
  NsNonEmpty /\ closeCalls = 1 /\ Len(issued) > 6 /\ numDecrements > 5

(***************************************************************************)
(* C4-C5: the dedup sink.                                                  *)
(***************************************************************************)
\* C4: neither the records accepted into the stream nor the list returned
\* by getAllDnsRecords contain two records with the same (name, type, data).
C4_NoDuplicateIdentity ==
  /\ NoTwoIdentical(sent)
  /\ resultState = "resolved" => NoTwoIdentical(result)

\* the part of C4 about the stream alone
StreamHasNoDuplicate ==
  NoTwoIdentical(sent)

\* C5: every accepted and every returned record is named by the root domain
\* or by a name that ends with '.' followed by the root domain.
C5_NamesInSubtree ==
  /\ \A i \in 1..Len(sent) : InSubtree(sent[i].name)
  /\ resultState = "resolved" => \A i \in 1..Len(result) : InSubtree(result[i].name)

(***************************************************************************)
(* C6-C7: the NS bootstrap.                                                *)
(***************************************************************************)
\* C6: after an empty NS answer no other query has been issued, the
\* stream is closed and empty, and getAllDnsRecords does not fail and
\* returns the empty list.
C6_NoDelegationEndsRun ==
  NsEmpty =>
    /\ Len(issued) = 1 /\ inflight = {}
    /\ closeCalls = 1
    /\ written = <<>> /\ sent = <<>>
    /\ resultState # "rejected"
    /\ (resultState = "resolved" => result = <<>>)

\* getAllDnsRecords returned for a domain without delegation
C6_Witness ==
  NsEmpty /\ resultState = "resolved" /\ result = <<>>

\* C7: when the NS answer is not empty, the list getAllDnsRecords returns is
\* not empty and contains every record of the NS answer.
C7_ResultContainsNsAnswer ==
  (NsNonEmpty /\ resultState = "resolved") =>
    /\ result # <<>>
    /\ \A k \in 1..Len(answers[1]) :
         \E i \in 1..Len(result) : SameIdentity(result[i], answers[1][k])

(***************************************************************************)
(* C8-C9: the candidate queue.                                             *)
(***************************************************************************)
\* C8: no label has been put on the candidate queue twice, the seed
\* (options.subdomains, then the static list) included.
C8_QueuedAtMostOnce ==
  \A i, j \in 1..Len(everQueued) : i < j => everQueued[i] # everQueued[j]

\* C8, amended: a label that addSubdomain puts on the queue was never on the
\* queue before, neither by the seed nor by an earlier proposal.
C8_AddSubdomainNeverRequeues ==
  \A j \in (Len(Seed) + 1)..Len(everQueued) :
    \A i \in 1..(j - 1) : everQueued[i] # everQueued[j]

\* the label n was proposed by the NS target and by the SPF include, the
\* label w by the SPF a: mechanism and the seed, the label s by the MX host;
\* n and s are queued once
C8_Witness ==
  /\ \E id \in DOMAIN answers : issued[id].then = "txt"
  /\ \E id \in DOMAIN answers : issued[id].then = "mx"
  /\ Len(everQueued) = Len(Seed) + 2
  /\ everQueued[Len(Seed) + 1] = <<"n">>
  /\ everQueued[Len(Seed) + 2] = <<"s">>

stripDot(s) ==
  IF endsWith(s, <<".">>) THEN SubSeq(s, 1, Len(s) - 1) ELSE s

\* the label of a host name inside the subtree of the root domain, <<>> for
\* any other host name
LabelOf(host) ==
  LET h == stripDot(host)
      d == stripDot(domain)
  IN  IF endsWith(h, <<".">> \o d) /\ Len(h) > Len(d) + 1
      THEN SubSeq(h, 1, Len(h) - Len(d) - 1)
      ELSE <<>>

\* the records of the answers that the callbacks of one kind received
AnswerRecords(handler) ==
  UNION {{answers[id][k] : k \in 1..Len(answers[id])} :
           id \in {i \in DOMAIN answers : issued[i].then = handler}}

NsHosts ==
  {r.data : r \in AnswerRecords("ns")}

\* the exchange hosts of the MX data '<preference> <exchange-host>'
MxHosts ==
  {split(r.data, " ")[2] :
     r \in {x \in AnswerRecords("mx") : Len(split(x.data, " ")) > 1}}

Mechanisms ==
  {<<"i", "n", "c", "l", "u", "d", "e", ":">>, <<"a", ":">>, <<"m", "x", ":">>}

\* the host names of the include:, a: and mx: mechanisms of an SPF policy
SpfHostsOf(data) ==
  LET tokens == split(data, " ")
  IN  {SubSeq(tokens[i], Len(m) + 1, Len(tokens[i])) :
         <<i, m>> \in {p \in (1..Len(tokens)) \X Mechanisms :
                         startsWith(tokens[p[1]], p[2])}}

SpfHosts ==
  UNION {SpfHostsOf(r.data) :
           r \in {x \in AnswerRecords("txt") :
                    includes(x.data, <<"v", "=", "s", "p", "f", "1">>)}}

\* the labels a run has to probe: the seeded ones and the ones of the NS,
\* MX and SPF hosts inside the subtree
ExpectedLabels ==
  ({optSubdomains[i] : i \in 1..Len(optSubdomains)}
     \cup {LabelOf(h) : h \in NsHosts \cup MxHosts \cup SpfHosts}) \ {<<>>}

\* C9: when the stream of a run with delegation is closed, an A query for
\* label.domain has been issued for the label of every MX exchange host, NS
\* target and SPF host inside the subtree and for every label of
\* options.subdomains.
C9_CandidatesQueriedBeforeClose ==
  (NsNonEmpty /\ closeCalls >= 1) =>
    \A label \in ExpectedLabels : QueriedA(label \o <<".">> \o domain)

(***************************************************************************)
(* C10: the classification rule of detectWildcardRecords.                  *)
(***************************************************************************)
\* number of records of the type of r
TotalOf(recs, r) ==
  Cardinality({i \in 1..Len(recs) : recs[i].type = r.type})

\* number of records that share type and data with r
GroupSizeOf(recs, r) ==
  Cardinality({i \in 1..Len(recs) : recs[i].type = r.type /\ recs[i].data = r.data})

MeetsThreshold(recs, r, percent) ==
  GroupSizeOf(recs, r) * 100 >= percent * TotalOf(recs, r)

MeetsSampleSize(recs, r) ==
  2 * TotalOf(recs, r) >= Len(subdomainsRecords)

WildcardEvidence(recs, r, percent) ==
  /\ r.type \in {T_A, T_AAAA, T_CNAME}
  /\ MeetsThreshold(recs, r, percent)
  /\ MeetsSampleSize(recs, r)

StarName ==
  <<"*", ".">> \o domain

IsStar(r) ==
  r.name = StarName

\* C10: the records of the output that are not named '*.domain' are the
\* input records that are no wildcard evidence, unchanged and in their order;
\* every input record that is wildcard evidence is represented by an output
\* record named '*.domain' of its type and data, and every output record
\* named '*.domain' represents such an input record.
C10_ClassificationRule ==
  wOut # <<>> =>
    LET out == wOut[1]
    IN  /\ SelectSeq(out, LAMBDA r : ~IsStar(r))
             = SelectSeq(wRecords, LAMBDA r : ~WildcardEvidence(wRecords, r, wPercent))
        /\ \A i \in 1..Len(wRecords) :
             WildcardEvidence(wRecords, wRecords[i], wPercent) =>
               \E o \in 1..Len(out) :
                 /\ IsStar(out[o])
                 /\ out[o].type = wRecords[i].type
                 /\ out[o].data = wRecords[i].data
        /\ \A o \in 1..Len(out) :
             IsStar(out[o]) =>
               \E i \in 1..Len(wRecords) :
                 /\ WildcardEvidence(wRecords, wRecords[i], wPercent)
                 /\ out[o] = [wRecords[i] EXCEPT !.name = StarName]

\* the function was applied to a list with A records that are wildcard
\* evidence and an A record whose group is below the threshold
C10_Witness ==
  /\ wOut # <<>>
  /\ \E i \in 1..Len(wRecords) : WildcardEvidence(wRecords, wRecords[i], wPercent)
  /\ \E i \in 1..Len(wRecords) :
       /\ wRecords[i].type = T_A
       /\ MeetsSampleSize(wRecords, wRecords[i])
       /\ ~MeetsThreshold(wRecords, wRecords[i], wPercent)

(***************************************************************************)
(* C11-C13: the groups of detectWildcardRecords.                           *)
(***************************************************************************)
\* the records of one type, in their order
OfType(recs, type) ==
  SelectSeq(recs, LAMBDA r : r.type = type)

\* the names of the records that share type and data with r
GroupNames(recs, r) ==
  {recs[i].name : i \in {k \in 1..Len(recs) :
                           recs[k].type = r.type /\ recs[k].data = r.data}}

\* C11: the output holds at most one record named '*.domain' of each
\* (type, data) group, however many input records of however many names the
\* group has.
C11_OneWildcardPerGroup ==
  wOut # <<>> =>
    \A i, j \in 1..Len(wOut[1]) :
      (i < j /\ IsStar(wOut[1][i]) /\ IsStar(wOut[1][j])) =>
        ~(wOut[1][i].type = wOut[1][j].type /\ wOut[1][i].data = wOut[1][j].data)

\* a group of at least three records under two names was replaced by
\* '*.domain', next to a second group that was replaced
C11_Witness ==
  /\ wOut # <<>>
  /\ \E i \in 1..Len(wRecords) :
       /\ WildcardEvidence(wRecords, wRecords[i], wPercent)
       /\ GroupSizeOf(wRecords, wRecords[i]) >= 3
       /\ Cardinality(GroupNames(wRecords, wRecords[i])) >= 2
  /\ Cardinality({o \in 1..Len(wOut[1]) : IsStar(wOut[1][o])}) >= 2

SameData(recs) ==
  \A i, j \in 1..Len(recs) : recs[i].data = recs[j].data

DistinctData(recs) ==
  \A i, j \in 1..Len(recs) : i # j => recs[i].data # recs[j].data

\* C12: when all n A records of the input carry the same IP and n meets the
\* minimum sample size, the output holds exactly one A record; it is named
\* '*.domain' and carries that IP, so no original name survives as an A
\* record.
C12_SameIpCollapses ==
  LET a == OfType(wRecords, T_A)
  IN  (wOut # <<>> /\ a # <<>> /\ SameData(a)
         /\ 2 * Len(a) >= Len(subdomainsRecords)) =>
        /\ Len(OfType(wOut[1], T_A)) = 1
        /\ IsStar(OfType(wOut[1], T_A)[1])
        /\ OfType(wOut[1], T_A)[1].data = a[1].data

\* at least three A records of one IP under two names, next to a record of
\* another type, were collapsed
C12_Witness ==
  LET a == OfType(wRecords, T_A)
  IN  /\ wOut # <<>>
      /\ Len(a) >= 3 /\ SameData(a)
      /\ Cardinality({a[i].name : i \in 1..Len(a)}) >= 2
      /\ Len(wRecords) > Len(a)
      /\ Len(OfType(wOut[1], T_A)) = 1

\* C13: when the A records of the input carry pairwise different data, the
\* output equals the input and holds no record named '*.domain'.
C13_DistinctDataPassThrough ==
  (wOut # <<>> /\ DistinctData(OfType(wRecords, T_A))) =>
    /\ wOut[1] = wRecords
    /\ \A o \in 1..Len(wOut[1]) : ~IsStar(wOut[1][o])

(***************************************************************************)
(* C14-C15: the wire form and the stream.                                  *)
(***************************************************************************)
\* C14: every record the reader has parsed from the stream equals, field
\* for field, the record that sendRecord encoded into that chunk.
C14_RoundTrip ==
  \A i \in 1..Len(records) : records[i] = sent[i]

\* C15: the chunks of the stream are the encodings of the accepted records,
\* one chunk per accepted hash and in the order of acceptance; no hash is
\* accepted twice; once the writer is closed no query is in flight, so
\* nothing is written after the close; the writer of a run with delegation
\* is closed when the counter is zero.
C15_WrittenOnceInOrder ==
  /\ Len(written) = Len(recordsHashes)
  /\ Len(sent) = Len(recordsHashes)
  /\ \A i \in 1..Len(recordsHashes) :
       /\ i <= Len(sent) => recordsHashes[i] = recordHash(sent[i])
       /\ (i <= Len(sent) /\ i <= Len(written)) => written[i] = encodeRecord(sent[i])
  /\ \A i, j \in 1..Len(recordsHashes) : i < j => recordsHashes[i] # recordsHashes[j]
  /\ closeCalls >= 1 => inflight = {}
  /\ (NsNonEmpty /\ runningChecks = 0) => closeCalls = 1

\* a closed stream with records of several answers, one of which held a
\* record that was not accepted
C15_Witness ==
  /\ closeCalls = 1
  /\ Len(written) >= 4
  /\ \E id \in DOMAIN answers : \E k \in 1..Len(answers[id]) :
       \A i \in 1..Len(sent) : sent[i] # answers[id][k]

(***************************************************************************)
(* C16-C17: the order and the number of the queries.                       *)
(***************************************************************************)
\* the root-level query groups issued so far
RootGroups ==
  {id \in 1..Len(issued) : Counted(id) /\ issued[id].name = domain}

\* the subdomain queries issued so far
SubQueries ==
  {id \in 1..Len(issued) : issued[id].name # domain}

\* C16: a query other than the NS bootstrap has been issued only if the NS
\* query resolved with at least one record, and a subdomain query has been
\* issued only if the five root-level groups have resolved and the counter
\* has been decremented five times.
C16_ProtocolOrder ==
  /\ Len(issued) > 1 => NsNonEmpty
  /\ SubQueries # {} =>
       /\ Cardinality(RootGroups) = 5
       /\ \A id \in RootGroups : Resolved(id)
       /\ numDecrements >= 5
       /\ \A id \in SubQueries : issued[id].type = T_A

\* subdomain queries are in flight after the five root-level groups
C16_Witness ==
  /\ NsNonEmpty
  /\ Cardinality(SubQueries) >= 2
  /\ SubQueries \cap inflight # {}

\* C17: no two A queries of a run have the same name, and no label is
\* marked checked twice.
C17_OneQueryPerLabel ==
  /\ \A i, j \in 1..Len(issued) :
       (i < j /\ issued[i].type = T_A /\ issued[j].type = T_A) =>
         issued[i].name # issued[j].name
  /\ \A i, j \in 1..Len(subdomainsChecked) :
       i < j => subdomainsChecked[i] # subdomainsChecked[j]

\* the label w is in options.subdomains and in the static list and was named
\* by the SPF policy; the run drained its queue twice and is closed
C17_Witness ==
  /\ arrIncludes(optSubdomains, <<"w">>)
  /\ arrIncludes(subdomainsRecords, <<"w">>)
  /\ QueriedA(Host(<<"w">>))
  /\ closeCalls = 1
  /\ numDecrements > 5

(***************************************************************************)
(* C19: the counter and the queries in flight.                             *)
(***************************************************************************)
\* number of counted queries whose promise is pending
InFlightCounted ==
  Cardinality({id \in inflight : Counted(id)})

\* number of counted queries whose promise was rejected
FailedCounted ==
  Cardinality({id \in rejected : Counted(id)})

\* C19: runningChecks is not negative and not below the number of counted
\* queries in flight, and equals that number when no query has failed.
C19_CounterCoversInFlight ==
  /\ runningChecks >= 0
  /\ runningChecks >= InFlightCounted
  /\ rejected = {} => runningChecks = InFlightCounted

\* C19, amended: runningChecks is not negative and not below the number of
\* counted queries in flight; once the NS query has resolved with a record it
\* equals the number of counted queries in flight plus the number of counted
\* queries that failed; until then, and after an empty NS answer, it is 5
\* and no counted query is in flight.
C19_CounterAfterBootstrap ==
  /\ runningChecks >= 0
  /\ runningChecks >= InFlightCounted
  /\ NsNonEmpty => runningChecks = InFlightCounted + FailedCounted
  /\ ~NsNonEmpty => (runningChecks = 5 /\ InFlightCounted = 0)

\* subdomain queries are in flight after one of them has failed
C19_Witness ==
  /\ NsNonEmpty
  /\ FailedCounted = 1
  /\ \E id \in rejected : issued[id].name # domain
  /\ InFlightCounted >= 2
  /\ runningChecks = InFlightCounted + 1

(***************************************************************************)
(* C18: the label addSubdomain proposes.                                   *)
(***************************************************************************)
\* h without its last Len('.' + domain) characters
StripSuffix(h) ==
  SubSeq(h, 1, Len(h) - Len(domain) - 1)

\* C18: for every host name addSubdomain was called with that, its trailing
\* dot removed, ends with '.' + domain, the candidate queue holds the host
\* name without that suffix.
C18_ProposesSuffixStrippedLabel ==
  \A i \in 1..Len(proposed) :
    LET h == stripDot(proposed[i])
    IN  endsWith(h, <<".">> \o domain) =>
          /\ StripSuffix(h) \o <<".">> \o domain = h
          /\ arrIncludes(subdomainsExtra, StripSuffix(h))

\* the part of C18 about host names that hold '.' + domain once
SingleSuffixLabelProposed ==
  \A i \in 1..Len(proposed) :
    LET h == stripDot(proposed[i])
    IN  (endsWith(h, <<".">> \o domain)
           /\ indexOf(h, <<".">> \o domain) = Len(h) - Len(domain)) =>
          arrIncludes(subdomainsExtra, StripSuffix(h))

(***************************************************************************)
(* C20: the completion order of the queries.                               *)
(***************************************************************************)
\* the closure when getAllDnsRecordsStream returns
InitialRun ==
  [recordsHashes |-> <<>>, subdomainsChecked |-> <<>>, subdomainsExtra |-> Seed,
   runningChecks |-> 5, written |-> <<>>, closeCalls |-> 0,
   issued |-> <<[name |-> domain, type |-> T_NS, then |-> "ns"]>>,
   inflight |-> {1}, sent |-> <<>>, everQueued |-> Seed, numDecrements |-> 0]

\* the resolver as a function of the query, the NS answer apart
AnswerOf(q) ==
  CHOOSE recs \in ResolverAnswers(domain, q) : TRUE

\* the then-callback of a query applied to its answer
Callback(st, q, recs) ==
  IF q.then = "ns" THEN nsHandler(domain, st, recs)
  ELSE IF q.then = "mx" THEN mxHandler(domain, st, recs)
  ELSE IF q.then = "txt" THEN txtHandler(domain, st, recs)
  ELSE sendRecords(domain, st, recs)

RECURSIVE InIssueOrder(_, _)
\* the run in which the queries complete in the order they were issued
InIssueOrder(st, nsRecords) ==
  IF st.inflight = {} THEN st
  ELSE LET id   == CHOOSE i \in st.inflight : \A j \in st.inflight : i <= j
           q    == st.issued[id]
           recs == IF q.then = "ns" THEN nsRecords ELSE AnswerOf(q)
       IN  InIssueOrder(Callback([st EXCEPT !.inflight = @ \ {id}], q, recs),
                        nsRecords)

Identity(r) ==
  <<r.name, r.type, r.data>>

QuerySet(st) ==
  {<<st.issued[i].name, st.issued[i].type>> : i \in 1..Len(st.issued)}

IdentitySet(st) ==
  {Identity(st.sent[i]) : i \in 1..Len(st.sent)}

\* every query of the run resolved with the answer the resolver function
\* gives to it
FixedAnswers ==
  /\ rejected = {}
  /\ inflight = {}
  /\ \A id \in DOMAIN answers : id # 1 => answers[id] = AnswerOf(issued[id])

\* C20: a run whose queries all resolved has issued the same set of queries
\* and written the same set of (name, type, data) identities as the run with
\* the same answers whose queries complete in the order of their issue.
C20_OrderIndependent ==
  (FixedAnswers /\ Resolved(1)) =>
    LET ref == InIssueOrder(InitialRun, answers[1])
    IN  /\ QuerySet(Run) = QuerySet(ref)
        /\ IdentitySet(Run) = IdentitySet(ref)
        /\ Len(written) = Len(ref.written)
        /\ closeCalls = ref.closeCalls

\* a finished run whose records were accepted in another order than in the
\* run that completes in issue order, with a subdomain label named by the MX
\* answer alone
C20_Witness ==
  /\ FixedAnswers /\ NsNonEmpty
  /\ closeCalls = 1
  /\ QueriedA(Host(<<"s">>))
  /\ sent # InIssueOrder(InitialRun, answers[1]).sent

====
